---- MODULE Spec2Model ----
(***************************************************************************)
(* State-machine model of the Santa API service (src/main.py): the         *)
(* start-call and complete-call handlers, their background analytics       *)
(* tasks, the in-memory analytics log and its aggregation, the health and  *)
(* arc-inspection endpoints, and the conversation-arc catalog.             *)
(*                                                                         *)
(* Scheduling.  The handlers are coroutines of one event loop: between two *)
(* awaits a handler runs without any other handler interleaving.  The      *)
(* background tasks are plain functions, which the framework runs on       *)
(* worker threads: they interleave with the event loop at any point.       *)
(* get_analytics has no await, so it is split only where a worker thread   *)
(* can be observed: between its separate reads of the log.                 *)
(*                                                                         *)
(* Values.  Optional[T] is a sequence: <<>> is None and <<x>> is x.  A     *)
(* dict is a function on its keys.  A datetime keeps its date (a day       *)
(* number): nothing in the program reads more than .date() of a stored     *)
(* timestamp.  Floats returned by round(x, d) are integers counting        *)
(* 10^-d units.                                                            *)
(***************************************************************************)
EXTENDS Integers, Sequences, FiniteSets, Bags, TLC

\* ---------------------------------------------------------------- bounds
MaxRequests == 3      \* POST requests accepted in one behaviour of Spec, of FairSpec
MaxSoloRequests == 2  \* POST requests accepted in one behaviour of SpecCall
MaxInflight == 2      \* requests being handled at the same time
MaxDay == 1           \* days the clock can advance
MaxLog == 3           \* events in a log drawn by InitAgg

Slots == 1..MaxInflight

None == <<>>
Some(x) == <<x>>

VARIABLES
  TAVUS_API_KEY,      \* os.getenv("TAVUS_API_KEY")
  TAVUS_PERSONA_ID,   \* os.getenv("TAVUS_PERSONA_ID")
  heap,               \* the dict objects: the catalog's arcs and the handlers' copies
  analytics_store,    \* the event log
  utcnow,             \* the clock (a day number)
  calls,              \* per slot: the POST request being handled
  reader,             \* the frame of get_analytics
  last_get,           \* the last response of /api/health or /api/santa/arcs
  hist                \* history: what has been requested and answered

vars == <<TAVUS_API_KEY, TAVUS_PERSONA_ID, heap, analytics_store, utcnow,
          calls, reader, last_get, hist>>

\* ------------------------------------------------------------ the catalog
\* conversation-arcs.yaml as loaded: two arcs, three age bands.  The keys are
\* the ones the code reads; the texts are opaque to it.
Arc5min ==
  [name |-> "quick_visit", total_duration_seconds |-> 300,
   phases |-> << [name |-> "warm_greeting", duration_seconds |-> 60, percentage |-> 20,
                  goals |-> <<"welcome">>, santa_guidelines |-> <<"smile">>],
                 [name |-> "wish_list", duration_seconds |-> 240, percentage |-> 80,
                  goals |-> <<"listen">>, santa_guidelines |-> <<"no promises">>,
                  suggested_questions |-> <<"what would you like?">>] >>]

Arc10min ==
  [name |-> "full_visit", total_duration_seconds |-> 600,
   phases |-> << [name |-> "warm_greeting", duration_seconds |-> 120, percentage |-> 20,
                  goals |-> <<"welcome">>, santa_guidelines |-> <<"smile">>],
                 [name |-> "wish_list", duration_seconds |-> 300, percentage |-> 50,
                  goals |-> <<"listen">>, santa_guidelines |-> <<"no promises">>,
                  suggested_questions |-> <<"what would you like?">>],
                 [name |-> "fond_farewell", duration_seconds |-> 180, percentage |-> 30,
                  goals |-> <<"goodbye">>, santa_guidelines |-> <<"wave">>] >>]

AgeAdaptation(level) ==
  [language_level |-> level, response_length |-> "short", sentence_complexity |-> "simple",
   energy |-> "high", attention_span |-> "brief"]

Timing(avg) ==
  [average_response_length_seconds |-> avg, max_response_length_seconds |-> 2 * avg,
   pause_between_responses_seconds |-> 1]

\* CONVERSATION_ARCS: 'arcs' holds references to dict objects (addresses of
\* heap); the other tables are only ever read.
CONVERSATION_ARCS ==
  [arcs |-> [d \in {"5min", "10min"} |-> IF d = "5min" THEN 1 ELSE 2],
   age_adaptations |->
     [b \in {"ages_2_4", "ages_5_8", "ages_9_12"} |->
        AgeAdaptation(IF b = "ages_2_4" THEN "toddler"
                      ELSE IF b = "ages_5_8" THEN "child" ELSE "preteen")],
   greeting_templates |->
     [b \in {"ages_2_4", "ages_5_8", "ages_9_12"} |->
        IF b = "ages_2_4" THEN <<"Ho ho ho, {child_name}!", "Hello little {child}!">>
        ELSE IF b = "ages_5_8" THEN <<"Merry Christmas, {child_name}!">>
        ELSE <<"Good to see you, {child_name}.">>],
   timing_guidelines |-> [d \in {"5min", "10min"} |-> Timing(IF d = "5min" THEN 10 ELSE 15)]]

CatalogAddrs == {CONVERSATION_ARCS.arcs[d] : d \in DOMAIN CONVERSATION_ARCS.arcs}

\* The heap right after the catalog is loaded.
HeapAtLoad == [a \in CatalogAddrs |-> IF a = 1 THEN Arc5min ELSE Arc10min]

\* ------------------------------------------------------------- dict objects
\* A fresh address.
NewAddr(h) == CHOOSE a \in 1..(Cardinality(DOMAIN h) + 1) : a \notin DOMAIN h

\* (mutant of DictCopy) no copy is taken: the result is the catalog's object.
DictCopyAlias(h, a) == [heap |-> h, addr |-> a]

\* dict.copy(): a new object with the same keys and values (a shallow copy).
DictCopy(h, a) ==
  LET n == NewAddr(h)
  IN  [heap |-> [x \in DOMAIN h \cup {n} |-> IF x = n THEN h[a] ELSE h[x]], addr |-> n]

\* d[key] = value on the object at address a.
DictSet(h, a, key, value) == [h EXCEPT ![a] = (key :> value) @@ h[a]]

\* The object at address a dies with the last reference to it; the catalog
\* keeps its own references for the life of the process.
Release(h, a) ==
  IF a \in CatalogAddrs \/ a \notin DOMAIN h THEN h
  ELSE [x \in DOMAIN h \ {a} |-> h[x]]

\* ----------------------------------------------------- personalization
AgeBand(age) ==
  IF age <= 4 THEN "ages_2_4" ELSE IF age <= 8 THEN "ages_5_8" ELSE "ages_9_12"

load_conversation_arc(h, duration, age) ==
  LET copied == DictCopy(h, CONVERSATION_ARCS.arcs[duration])
      h1 == DictSet(copied.heap, copied.addr, "age_adaptation",
                    CONVERSATION_ARCS.age_adaptations[AgeBand(age)])
      h2 == DictSet(h1, copied.addr, "timing", CONVERSATION_ARCS.timing_guidelines[duration])
  IN  [heap |-> h2, arc_data |-> copied.addr]

\* The templates random.choice draws from.
GreetingTemplates(child_age) == CONVERSATION_ARCS.greeting_templates[AgeBand(child_age)]

\* template.format(child_name=..., child="child") with the drawn template.
generate_greeting(child_name, child_age, choice) ==
  [template |-> GreetingTemplates(child_age)[choice], child_name |-> child_name,
   child |-> "child"]

PhaseBlock(i, phase) ==
  [block |-> "phase", index |-> i, title_of |-> phase.name,
   duration_seconds |-> phase.duration_seconds, percentage |-> phase.percentage,
   goals |-> phase.goals, guidelines |-> phase.santa_guidelines,
   suggested_questions |->
     IF "suggested_questions" \in DOMAIN phase THEN Some(phase.suggested_questions) ELSE None]

\* The prompt as the sequence of its blocks.
create_system_prompt(child_name, child_age, duration, greeting, arc) ==
  << [block |-> "child_information", name |-> child_name, age |-> child_age,
      duration |-> duration, seconds |-> arc["total_duration_seconds"],
      language_level |-> arc["age_adaptation"].language_level],
     [block |-> "mandatory_greeting", greeting |-> greeting],
     [block |-> "conversation_structure", duration |-> duration, phases |-> Len(arc["phases"])] >>
  \o [i \in 1..Len(arc["phases"]) |-> PhaseBlock(i, arc["phases"][i])]
  \o << [block |-> "age_adaptations", age |-> child_age,
         response_length |-> arc["age_adaptation"].response_length,
         sentence_complexity |-> arc["age_adaptation"].sentence_complexity,
         energy |-> arc["age_adaptation"].energy,
         attention_span |-> arc["age_adaptation"].attention_span],
        [block |-> "timing_guidelines",
         average |-> arc["timing"].average_response_length_seconds,
         max |-> arc["timing"].max_response_length_seconds,
         pause |-> arc["timing"].pause_between_responses_seconds],
        [block |-> "conversation_rules", name |-> child_name],
        [block |-> "quality_indicators"],
        [block |-> "reminder", name |-> child_name] >>

\* --------------------------------------------------------------- requests
\* A child's name of n characters.
NameOfLen(n) == [i \in 1..n |-> "x"]

\* (mutant of StartCallRequest) child_age has no upper limit.
StartCallRequestNoAgeLimit(request) ==
  /\ Len(request.child_name) >= 1
  /\ Len(request.child_name) <= 50
  /\ request.child_age >= 2
  /\ request.call_duration \in {"5min", "10min"}

\* StartCallRequest's field constraints and validate_duration.
StartCallRequest(request) ==
  /\ Len(request.child_name) >= 1
  /\ Len(request.child_name) <= 50
  /\ request.child_age >= 2
  /\ request.child_age <= 12
  /\ request.call_duration \in {"5min", "10min"}

\* CallCompletionRequest's field constraints.
CallCompletionRequest(request) ==
  request.parent_rating = None
    \/ (request.parent_rating[1] >= 1 /\ request.parent_rating[1] <= 5)

\* bool(x) of an environment variable: None and "" are false.
Truthy(v) == v # None /\ v[1] # ""

\* The framework's answer to a request body that fails validation; the
\* handler is not called.
RequestValidationError == [kind |-> "request_validation_error"]

\* An exception no handler is registered for.
UnhandledException(what) == [kind |-> "unhandled_exception", exception |-> what]

\* The registered handler for HTTPException: the error envelope.
http_exception_handler(status_code, detail, now) ==
  [kind |-> "error_envelope", error |-> TRUE, status_code |-> status_code,
   message |-> detail, timestamp |-> now]

IdleCall ==
  [pc |-> "idle", endpoint |-> "", request |-> None, greeting |-> None,
   conversation_arc |-> 0, tavus_request |-> None, posts |-> 0, reply |-> None,
   response |-> None, tasks |-> <<>>]

\* The event loop is free to start or resume a handler: none is between
\* two of its steps, and no response built by one is still to be sent.
EventLoopFree ==
  /\ reader.pc = "idle"
  /\ last_get = None
  /\ \A s \in Slots : calls[s].pc # "responding"

\* ------------------------------------------------------------- analytics log
\* (mutant of track_call_started) one entry per conversation id.
track_call_started_once(store, call_data, now) ==
  IF \E i \in DOMAIN store : store[i].event = "call_started"
                              /\ store[i].conversation_id = call_data.conversation_id
    THEN store
    ELSE Append(store, [event |-> "call_started", timestamp |-> now,
                        conversation_id |-> call_data.conversation_id,
                        child_age |-> call_data.child_age,
                        call_duration |-> call_data.call_duration,
                        parent_email |-> call_data.parent_email])

track_call_started(store, call_data, now) ==
  Append(store, [event |-> "call_started", timestamp |-> now,
                 conversation_id |-> call_data.conversation_id,
                 child_age |-> call_data.child_age,
                 call_duration |-> call_data.call_duration,
                 parent_email |-> call_data.parent_email])

\* (mutant of track_call_completed) one entry per conversation id.
track_call_completed_once(store, completion_data, now) ==
  IF \E i \in DOMAIN store : store[i].event = "call_completed"
                              /\ store[i].conversation_id = completion_data.conversation_id
    THEN store
    ELSE Append(store, [event |-> "call_completed", timestamp |-> now,
                        conversation_id |-> completion_data.conversation_id,
                        actual_duration_seconds |-> completion_data.actual_duration_seconds,
                        parent_rating |-> completion_data.parent_rating,
                        parent_feedback |-> completion_data.parent_feedback,
                        child_enjoyed |-> completion_data.child_enjoyed])

track_call_completed(store, completion_data, now) ==
  Append(store, [event |-> "call_completed", timestamp |-> now,
                 conversation_id |-> completion_data.conversation_id,
                 actual_duration_seconds |-> completion_data.actual_duration_seconds,
                 parent_rating |-> completion_data.parent_rating,
                 parent_feedback |-> completion_data.parent_feedback,
                 child_enjoyed |-> completion_data.child_enjoyed])

\* ------------------------------------------------------------- start-call
MaxDurationSeconds(call_duration) == IF call_duration = "5min" THEN 300 ELSE 600

\* The body of the POST to {TAVUS_BASE_URL}/conversations.
TavusRequest(request, system_prompt) ==
  [x_api_key |-> TAVUS_API_KEY,
   persona_id |-> TAVUS_PERSONA_ID,
   conversation_name |-> request.child_name,
   conversational_context |-> system_prompt,
   properties |-> [max_call_duration |-> MaxDurationSeconds(request.call_duration),
                   enable_recording |-> FALSE, participant_left_timeout |-> 60],
   custom_metadata |-> [child_name |-> request.child_name, child_age |-> request.child_age,
                        call_duration |-> request.call_duration,
                        parent_email |-> request.parent_email]]

\* The credential check of start_santa_call.
CredentialsConfigured == Truthy(TAVUS_API_KEY) /\ Truthy(TAVUS_PERSONA_ID)

\* start_santa_call up to its await of client.post: the framework validates
\* the body, the handler checks the credentials, personalizes and posts.
StartCallBegin(s, request) ==
  /\ calls[s].pc = "idle"
  /\ EventLoopFree
  /\ IF ~StartCallRequest(request)
       THEN /\ calls' = [calls EXCEPT ![s] =
                 [IdleCall EXCEPT !.pc = "responding", !.endpoint = "start-call",
                                  !.request = Some(request),
                                  !.response = Some(RequestValidationError)]]
            /\ heap' = heap
     ELSE IF ~CredentialsConfigured
       THEN /\ calls' = [calls EXCEPT ![s] =
                 [IdleCall EXCEPT !.pc = "responding", !.endpoint = "start-call",
                                  !.request = Some(request),
                                  !.response = Some(http_exception_handler(
                                      500, "Tavus API credentials not configured", utcnow))]]
            /\ heap' = heap
     ELSE \E choice \in 1..Len(GreetingTemplates(request.child_age)) :
            LET greeting == generate_greeting(request.child_name, request.child_age, choice)
                loaded == load_conversation_arc(heap, request.call_duration, request.child_age)
                system_prompt == create_system_prompt(
                                   request.child_name, request.child_age,
                                   request.call_duration, greeting,
                                   loaded.heap[loaded.arc_data])
            IN  /\ calls' = [calls EXCEPT ![s] =
                      [IdleCall EXCEPT !.pc = "await_post", !.endpoint = "start-call",
                                       !.request = Some(request),
                                       !.greeting = Some(greeting),
                                       !.conversation_arc = loaded.arc_data,
                                       !.tavus_request = Some(TavusRequest(request, system_prompt)),
                                       !.posts = 1]]
                /\ heap' = loaded.heap
  /\ hist' = [hist EXCEPT !.requests = @ + 1]
  /\ UNCHANGED <<TAVUS_API_KEY, TAVUS_PERSONA_ID, analytics_store, utcnow, reader, last_get>>

\* What becomes of the awaited POST.
\*   timeout        httpx.TimeoutException        -> HTTPException(504)
\*   request_error  any other httpx.RequestError  -> HTTPException(503)
\*   status         a response: not 200           -> HTTPException(its status)
\*                               200              -> the success path
ErrorStatus(reply) ==
  IF reply.kind = "timeout" THEN 504
  ELSE IF reply.kind = "request_error" THEN 503
  ELSE reply.status_code

ErrorDetail(reply) ==
  IF reply.kind = "timeout" THEN "Timeout connecting to Tavus API. Please try again."
  ELSE IF reply.kind = "request_error" THEN "Error connecting to Tavus API"
  ELSE "Tavus API error"

\* Does the reply leave the try block without an exception?
ReplyIsSuccess(reply) == reply.kind = "status" /\ reply.status_code = 200

\* utcnow() + timedelta(seconds=...), kept symbolic below the day.
PlusSeconds(now, seconds) == [date |-> now, plus_seconds |-> seconds]

\* The StartCallResponse the handler builds from tavus_data.
StartCallResponse(request, greeting, arc, tavus_data, now) ==
  LET estimated_end == PlusSeconds(now, MaxDurationSeconds(request.call_duration))
  IN  [kind |-> "start_call_response",
       conversation_id |-> tavus_data.conversation_id,
       conversation_url |-> tavus_data.conversation_url,
       expires_at |-> IF "expires_at" \in DOMAIN tavus_data
                        THEN tavus_data.expires_at ELSE estimated_end,
       call_metadata |-> [child_name |-> request.child_name, child_age |-> request.child_age,
                          call_duration |-> request.call_duration, greeting |-> greeting,
                          arc_name |-> arc["name"], phases |-> Len(arc["phases"])],
       estimated_end_time |-> estimated_end]

\* The argument of the background task start_santa_call adds.
StartedCallData(request, tavus_data) ==
  [conversation_id |-> tavus_data.conversation_id, child_age |-> request.child_age,
   call_duration |-> request.call_duration, parent_email |-> request.parent_email]

\* (mutant of StartCallTasks) add_task is forgotten.
StartCallTasksForgotten(request, tavus_data) == <<>>

\* The tasks start_santa_call hands to BackgroundTasks on its success path.
StartCallTasks(request, tavus_data) ==
  << [func |-> "track_call_started", arg |-> StartedCallData(request, tavus_data)] >>

\* Is the 200 body usable: tavus_data["conversation_id"] and
\* tavus_data["conversation_url"] raise KeyError otherwise.
HasCallFields(tavus_data) ==
  "conversation_id" \in DOMAIN tavus_data /\ "conversation_url" \in DOMAIN tavus_data

\* (mutant of FailedCall) a timeout is retried once.
FailedCallRetried(c, reply, now) ==
  IF reply.kind = "timeout" /\ c.posts < 2
    THEN [c EXCEPT !.posts = @ + 1]
    ELSE [c EXCEPT !.pc = "responding", !.reply = Some(reply), !.greeting = None,
                   !.tavus_request = None, !.conversation_arc = 0,
                   !.response = Some(http_exception_handler(
                                       ErrorStatus(reply), ErrorDetail(reply), now))]

\* (mutant of FailedCall) the call is tracked before the POST is known to
\* have succeeded.
FailedCallTracked(c, reply, now) ==
  [c EXCEPT !.pc = "responding", !.reply = Some(reply), !.greeting = None,
            !.tavus_request = None, !.conversation_arc = 0,
            !.response = Some(http_exception_handler(
                                ErrorStatus(reply), ErrorDetail(reply), now)),
            !.tasks = StartCallTasks(c.request[1], [conversation_id |-> "unknown"])]

\* The call after the POST failed: the HTTPException of the timeout, of the
\* connection error or of the non-200 status goes to the registered handler;
\* nothing is posted again and no task is added.
FailedCall(c, reply, now) ==
  [c EXCEPT !.pc = "responding", !.reply = Some(reply), !.greeting = None,
            !.tavus_request = None, !.conversation_arc = 0,
            !.response = Some(http_exception_handler(
                                ErrorStatus(reply), ErrorDetail(reply), now))]

\* The call after a 200 whose body lacks a field the handler reads.
BrokenCall(c, reply) ==
  [c EXCEPT !.pc = "responding", !.reply = Some(reply), !.greeting = None,
            !.tavus_request = None, !.conversation_arc = 0,
            !.response = Some(UnhandledException("KeyError"))]

\* The call after a 200: the response is built, then the task is added.
SucceededCall(c, reply, arc, now) ==
  [c EXCEPT !.pc = "responding", !.reply = Some(reply), !.greeting = None,
            !.tavus_request = None, !.conversation_arc = 0,
            !.response = Some(StartCallResponse(c.request[1], c.greeting[1], arc,
                                                reply.json[1], now)),
            !.tasks = StartCallTasks(c.request[1], reply.json[1])]

\* What a success response tells its caller about the call it started.
Answered(response) ==
  [conversation_id |-> response.conversation_id,
   child_age |-> response.call_metadata.child_age,
   call_duration |-> response.call_metadata.call_duration]

\* start_santa_call from the return of client.post to its own return (or
\* raise).  The response is sent before the background tasks run.
ProviderReply(s, reply) ==
  /\ calls[s].pc = "await_post"
  /\ EventLoopFree
  /\ IF ~ReplyIsSuccess(reply)
       THEN /\ calls' = [calls EXCEPT ![s] = FailedCall(calls[s], reply, utcnow)]
            /\ hist' = hist
     ELSE IF ~HasCallFields(reply.json[1])
       THEN /\ calls' = [calls EXCEPT ![s] = BrokenCall(calls[s], reply)]
            /\ hist' = hist
     ELSE /\ calls' = [calls EXCEPT ![s] =
               SucceededCall(calls[s], reply, heap[calls[s].conversation_arc], utcnow)]
          /\ hist' = [hist EXCEPT !.started_ok = @ (+) SetToBag({Answered(
               SucceededCall(calls[s], reply, heap[calls[s].conversation_arc],
                             utcnow).response[1])})]
  /\ heap' = Release(heap, calls[s].conversation_arc)
  /\ UNCHANGED <<TAVUS_API_KEY, TAVUS_PERSONA_ID, analytics_store, utcnow, reader, last_get>>

\* ---------------------------------------------------------- complete-call
CompletionData(request) ==
  [conversation_id |-> request.conversation_id,
   actual_duration_seconds |-> request.actual_duration_seconds,
   parent_rating |-> request.parent_rating,
   parent_feedback |-> request.parent_feedback,
   child_enjoyed |-> request.child_enjoyed]

\* The tasks complete_call hands to BackgroundTasks.
CompleteCallTasks(request) ==
  << [func |-> "track_call_completed", arg |-> CompletionData(request)] >>

CompleteCallAck(request) ==
  [kind |-> "complete_call_ack", status |-> "success",
   message |-> "Call completion recorded", conversation_id |-> request.conversation_id]

\* complete_call: no await, one step.
CompleteCall(s, request) ==
  /\ calls[s].pc = "idle"
  /\ EventLoopFree
  /\ IF ~CallCompletionRequest(request)
       THEN /\ calls' = [calls EXCEPT ![s] =
                 [IdleCall EXCEPT !.pc = "responding", !.endpoint = "complete-call",
                                  !.request = Some(request),
                                  !.response = Some(RequestValidationError)]]
            /\ hist' = [hist EXCEPT !.requests = @ + 1]
     ELSE /\ calls' = [calls EXCEPT ![s] =
               [IdleCall EXCEPT !.pc = "responding", !.endpoint = "complete-call",
                                !.request = Some(request),
                                !.response = Some(CompleteCallAck(request)),
                                !.tasks = CompleteCallTasks(request)]]
          /\ hist' = [hist EXCEPT !.requests = @ + 1,
                                  !.completed_ok = @ (+) SetToBag({request})]
  /\ UNCHANGED <<TAVUS_API_KEY, TAVUS_PERSONA_ID, heap, analytics_store, utcnow, reader, last_get>>

\* ------------------------------------------------------- background tasks
\* (mutant of RunTask) the newest event is put first.
RunTaskNewestFirst(store, task, now) ==
  LET appended == IF task.func = "track_call_started"
                    THEN track_call_started(store, task.arg, now)
                    ELSE track_call_completed(store, task.arg, now)
  IN  <<appended[Len(appended)]>> \o store

\* The log after one task has run.
RunTask(store, task, now) ==
  IF task.func = "track_call_started"
    THEN track_call_started(store, task.arg, now)
    ELSE track_call_completed(store, task.arg, now)

\* The requests whose background tasks are still to run.
Pending == {s \in Slots : calls[s].pc = "background"}

\* The event loop sends the response a POST handler built; the request's
\* background tasks, if any, are then handed to a worker thread.
SendResponse(s) ==
  /\ calls[s].pc = "responding"
  /\ calls' = [calls EXCEPT ![s] =
       IF calls[s].tasks = <<>> THEN IdleCall
       ELSE [IdleCall EXCEPT !.pc = "background", !.endpoint = calls[s].endpoint,
                             !.tasks = calls[s].tasks]]
  /\ hist' = [hist EXCEPT !.concurrent =
       IF calls[s].tasks # <<>> /\ @ < Cardinality(Pending) + 1
         THEN Cardinality(Pending) + 1 ELSE @]
  /\ UNCHANGED <<TAVUS_API_KEY, TAVUS_PERSONA_ID, heap, analytics_store, utcnow, reader,
                 last_get>>

\* A worker thread runs the next background task of a request whose
\* response has been sent; the request is over after its last task.
RunBackground(s) ==
  /\ calls[s].pc = "background"
  /\ analytics_store' = RunTask(analytics_store, Head(calls[s].tasks), utcnow)
  /\ calls' = [calls EXCEPT ![s] =
       IF Tail(calls[s].tasks) = <<>> THEN IdleCall ELSE [@ EXCEPT !.tasks = Tail(@)]]
  /\ UNCHANGED <<TAVUS_API_KEY, TAVUS_PERSONA_ID, heap, utcnow, reader, last_get, hist>>

\* The clock reaches the next day.
Tick ==
  /\ utcnow < MaxDay
  /\ utcnow' = utcnow + 1
  /\ UNCHANGED <<TAVUS_API_KEY, TAVUS_PERSONA_ID, heap, analytics_store, calls, reader,
                 last_get, hist>>

\* --------------------------------------------------------------- analytics
\* [x for x in seq if x['event'] == event]
EventsOf(seq, event) == SelectSeq(seq, LAMBDA x : x.event = event)

\* datetime.fromisoformat(timestamp).date()
DateOf(timestamp) == timestamp

RECURSIVE SumOf(_)
\* sum(...) of a list of integers.
SumOf(seq) == IF seq = <<>> THEN 0 ELSE Head(seq) + SumOf(Tail(seq))

\* (mutant of Round) the digits beyond d are cut, not rounded.
RoundTruncated(num, den, scale) == (num * scale) \div den

\* round(num / den, d) in units of 10^-d, for scale = 10^d: the float
\* nearest to the quotient, rounded half to even.  (Exact while an exact
\* tie num*scale/den = k + 1/2 is a binary fraction: den < 20 for d = 1,
\* den < 40 for d = 2.)
Round(num, den, scale) ==
  LET q == (num * scale) \div den
      r == (num * scale) % den
  IN  IF 2 * r < den THEN q
      ELSE IF 2 * r > den THEN q + 1
      ELSE IF q % 2 = 0 THEN q ELSE q + 1

\* dict.get(key, default)
DictGet(d, key, default) == IF key \in DOMAIN d THEN d[key] ELSE default

RECURSIVE CountBy(_, _)
\* for call in started_calls: d[key] = d.get(key, 0) + 1, over the keys of
\* the calls in their order.
CountBy(keys, d) ==
  IF keys = <<>> THEN d
  ELSE CountBy(Tail(keys), (Head(keys) :> DictGet(d, Head(keys), 0) + 1) @@ d)

EmptyDict == [k \in {} |-> 0]

\* x.get('parent_rating') is truthy
HasRating(x) == x.parent_rating # None /\ x.parent_rating[1] # 0

\* The early return of get_analytics on an empty log.
EmptyAnalytics ==
  [total_calls |-> 0, calls_today |-> 0, average_duration_seconds |-> 0,
   average_rating |-> 0, calls_by_duration |-> EmptyDict, calls_by_age |-> EmptyDict]

\* get_analytics after its two filters: the aggregation of its locals.
\* average_duration_seconds is in tenths, average_rating in hundredths.
Aggregate(started_calls, completed_calls, today) ==
  LET durations == [i \in 1..Len(completed_calls) |->
                      completed_calls[i].actual_duration_seconds]
      rated == SelectSeq(completed_calls, HasRating)
      ratings == [i \in 1..Len(rated) |-> rated[i].parent_rating[1]]
  IN  [total_calls |-> Len(started_calls),
       calls_today |-> Len(SelectSeq(started_calls,
                                     LAMBDA x : DateOf(x.timestamp) = today)),
       average_duration_seconds |->
         IF completed_calls # <<>>
           THEN Round(SumOf(durations), Len(completed_calls), 10) ELSE 0,
       average_rating |->
         IF ratings # <<>> THEN Round(SumOf(ratings), Len(ratings), 100) ELSE 0,
       calls_by_duration |->
         CountBy([i \in 1..Len(started_calls) |-> started_calls[i].call_duration], EmptyDict),
       calls_by_age |->
         CountBy([i \in 1..Len(started_calls) |-> ToString(started_calls[i].child_age)],
                 EmptyDict)]

\* today is the local of that name; pending_at_begin records how many
\* background tasks had not yet run when the handler was entered.
IdleReader ==
  [pc |-> "idle", started_calls |-> <<>>, completed_calls |-> <<>>, today |-> 0,
   result |-> None, pending_at_begin |-> 0]

\* get_analytics, first read of the log: `if not analytics_store`.
AnalyticsBegin ==
  /\ EventLoopFree
  /\ reader' = IF analytics_store = <<>>
                 THEN [IdleReader EXCEPT !.pc = "returned", !.result = Some(EmptyAnalytics),
                                         !.pending_at_begin = Cardinality(Pending)]
                 ELSE [IdleReader EXCEPT !.pc = "filter_started",
                                         !.pending_at_begin = Cardinality(Pending)]
  /\ UNCHANGED <<TAVUS_API_KEY, TAVUS_PERSONA_ID, heap, analytics_store, utcnow, calls,
                 last_get, hist>>

\* second read: started_calls = [...]
AnalyticsFilterStarted ==
  /\ reader.pc = "filter_started"
  /\ reader' = [reader EXCEPT !.pc = "filter_completed",
                              !.started_calls = EventsOf(analytics_store, "call_started")]
  /\ UNCHANGED <<TAVUS_API_KEY, TAVUS_PERSONA_ID, heap, analytics_store, utcnow, calls,
                 last_get, hist>>

\* third read: completed_calls = [...]
AnalyticsFilterCompleted ==
  /\ reader.pc = "filter_completed"
  /\ reader' = [reader EXCEPT !.pc = "aggregate",
                              !.completed_calls = EventsOf(analytics_store, "call_completed")]
  /\ UNCHANGED <<TAVUS_API_KEY, TAVUS_PERSONA_ID, heap, analytics_store, utcnow, calls,
                 last_get, hist>>

\* the rest of get_analytics: it reads its locals and the clock, not the log.
AnalyticsReturn ==
  /\ reader.pc = "aggregate"
  /\ reader' = [reader EXCEPT !.pc = "returned", !.today = utcnow,
                  !.started_calls = <<>>, !.completed_calls = <<>>,
                  !.result = Some(Aggregate(reader.started_calls, reader.completed_calls,
                                            utcnow))]
  /\ UNCHANGED <<TAVUS_API_KEY, TAVUS_PERSONA_ID, heap, analytics_store, utcnow, calls,
                 last_get, hist>>

\* The event loop sends the AnalyticsResponse.
AnalyticsSend ==
  /\ reader.pc = "returned"
  /\ reader' = IdleReader
  /\ UNCHANGED <<TAVUS_API_KEY, TAVUS_PERSONA_ID, heap, analytics_store, utcnow, calls,
                 last_get, hist>>

\* ------------------------------------------------------- health and arcs
\* health_check; probe is what became of GET {TAVUS_BASE_URL}/personas: a
\* status code, or 0 for any exception (the bare except swallows it).
health_check(probe) ==
  /\ EventLoopFree
  /\ last_get' = Some(
       [kind |-> "health", status |-> "healthy", timestamp |-> utcnow,
        configuration |-> [tavus_api_key_set |-> Truthy(TAVUS_API_KEY),
                           tavus_persona_id_set |-> Truthy(TAVUS_PERSONA_ID),
                           conversation_arcs_loaded |-> TRUE,
                           arcs_available |-> DOMAIN CONVERSATION_ARCS.arcs],
        tavus_api_reachable |-> probe \in {200, 401},
        total_calls_tracked |-> Len(EventsOf(analytics_store, "call_started"))])
  /\ UNCHANGED <<TAVUS_API_KEY, TAVUS_PERSONA_ID, heap, analytics_store, utcnow, calls,
                 reader, hist>>

\* get_conversation_arc: the catalog's own arc object, as it is now.
get_conversation_arc(duration) ==
  /\ EventLoopFree
  /\ last_get' = Some(
       IF duration \notin {"5min", "10min"}
         THEN http_exception_handler(400, "Duration must be '5min' or '10min'", utcnow)
       ELSE IF duration \notin DOMAIN CONVERSATION_ARCS.arcs
         THEN http_exception_handler(404, "Arc not found", utcnow)
       ELSE [kind |-> "arc", duration |-> duration,
             arc |-> heap[CONVERSATION_ARCS.arcs[duration]],
             timing_guidelines |-> CONVERSATION_ARCS.timing_guidelines[duration]])
  /\ UNCHANGED <<TAVUS_API_KEY, TAVUS_PERSONA_ID, heap, analytics_store, utcnow, calls,
                 reader, hist>>

\* The event loop sends the response of health_check or get_conversation_arc.
GetSend ==
  /\ last_get # None
  /\ last_get' = None
  /\ UNCHANGED <<TAVUS_API_KEY, TAVUS_PERSONA_ID, heap, analytics_store, utcnow, calls,
                 reader, hist>>

\* ------------------------------------------------------------------ inputs
StartCall(name_len, age, duration, email) ==
  [child_name |-> NameOfLen(name_len), child_age |-> age, call_duration |-> duration,
   parent_email |-> email]

\* Request bodies of start-call: two valid ones and one beyond each limit.
StartInputs ==
  { StartCall(1, 2, "5min", None), StartCall(50, 12, "10min", Some("p@x")),
    StartCall(0, 5, "5min", None), StartCall(51, 5, "5min", None),
    StartCall(1, 1, "5min", None), StartCall(1, 13, "10min", None),
    StartCall(1, 5, "7min", None) }

Completion(id, seconds, rating) ==
  [conversation_id |-> id, actual_duration_seconds |-> seconds, parent_rating |-> rating,
   parent_feedback |-> None, child_enjoyed |-> None]

\* Request bodies of complete-call: "c1" is an id the provider issues, "c0"
\* one it never does; ratings 0 and 6 are out of range.
CompleteInputs ==
  { Completion("c1", 240, None), Completion("c1", 241, Some(5)),
    Completion("c0", 100, Some(4)),
    Completion("c1", 240, Some(0)), Completion("c1", 240, Some(6)) }

Reply(kind, status_code, json) == [kind |-> kind, status_code |-> status_code, json |-> json]

\* What the provider can answer to the POST.
ReplyInputs ==
  { Reply("timeout", 0, None), Reply("request_error", 0, None),
    Reply("status", 429, None),
    Reply("status", 200, Some([conversation_id |-> "c1", conversation_url |-> "https://c1"])),
    Reply("status", 200, Some([conversation_id |-> "c1", conversation_url |-> "https://c1",
                               expires_at |-> PlusSeconds(MaxDay, 0)])),
    Reply("status", 200, Some([message |-> "accepted"])) }

ProbeInputs == {0, 200, 401, 500}

ArcInputs == {"5min", "10min", "7min"}

EnvInputs == {None, Some(""), Some("set")}

\* The slot a new request takes: the lowest idle one.
FreeSlot(s) == calls[s].pc = "idle" /\ \A t \in Slots : t < s => calls[t].pc # "idle"

\* ------------------------------------------------------- the specifications
Init ==
  /\ TAVUS_API_KEY \in EnvInputs
  /\ TAVUS_PERSONA_ID \in EnvInputs
  /\ heap = HeapAtLoad
  /\ analytics_store = <<>>
  /\ utcnow = 0
  /\ calls = [s \in Slots |-> IdleCall]
  /\ reader = IdleReader
  /\ last_get = None
  /\ hist = [requests |-> 0, started_ok |-> EmptyBag, completed_ok |-> EmptyBag,
             concurrent |-> 0]

\* The endpoints and the background tasks within one day: the steps read the
\* clock for timestamps only, and SpecAgg below is where it advances.
Next ==
  \/ \E s \in Slots, request \in StartInputs :
       hist.requests < MaxRequests /\ FreeSlot(s) /\ StartCallBegin(s, request)
  \/ \E s \in Slots, reply \in ReplyInputs : ProviderReply(s, reply)
  \/ \E s \in Slots, request \in CompleteInputs :
       hist.requests < MaxRequests /\ FreeSlot(s) /\ CompleteCall(s, request)
  \/ \E s \in Slots : SendResponse(s)
  \/ \E s \in Slots : RunBackground(s)
  \/ AnalyticsBegin
  \/ AnalyticsFilterStarted
  \/ AnalyticsFilterCompleted
  \/ AnalyticsReturn
  \/ AnalyticsSend
  \/ \E probe \in ProbeInputs : health_check(probe)
  \/ \E duration \in ArcInputs : get_conversation_arc(duration)
  \/ GetSend

Spec == Init /\ [][Next]_vars

\* The two POST endpoints and their background tasks.  The reads are left to
\* Spec: they change nothing these steps read.
NextPosts ==
  \/ \E s \in Slots, request \in StartInputs :
       hist.requests < MaxRequests /\ FreeSlot(s) /\ StartCallBegin(s, request)
  \/ \E s \in Slots, reply \in ReplyInputs : ProviderReply(s, reply)
  \/ \E s \in Slots, request \in CompleteInputs :
       hist.requests < MaxRequests /\ FreeSlot(s) /\ CompleteCall(s, request)
  \/ \E s \in Slots : SendResponse(s)
  \/ \E s \in Slots : RunBackground(s)

\* A response that is built is sent, and the background tasks that follow
\* it may wait for a worker thread, not forever.
FairSpec ==
  /\ Init /\ [][NextPosts]_vars
  /\ \A s \in Slots : WF_vars(SendResponse(s)) /\ WF_vars(RunBackground(s))

\* ----------------------------------------- one call at a time, every input
\* Every combination of a name length at or beyond each limit, an age from
\* 1 to 13 and a duration.
WideStartInputs ==
  { StartCall(n, a, d, None) : n \in {0, 1, 50, 51}, a \in 1..13,
                               d \in {"5min", "10min", "7min"} }

WideReplyInputs ==
  ReplyInputs \cup
  { Reply("status", c, None) : c \in {201, 400, 500} }

NextCall ==
  \/ \E request \in WideStartInputs :
       /\ hist.requests < MaxSoloRequests
       /\ \A t \in Slots : calls[t].pc = "idle"
       /\ StartCallBegin(1, request)
  \/ \E reply \in WideReplyInputs : ProviderReply(1, reply)
  \/ SendResponse(1)
  \/ RunBackground(1)
  \/ \E duration \in ArcInputs : get_conversation_arc(duration)
  \/ GetSend

SpecCall == Init /\ [][NextCall]_vars

\* ------------------------------------------- the aggregation of a given log
\* The arguments of the tasks that wrote the log.
TaskInputs ==
  { [func |-> "track_call_started",
     arg |-> [conversation_id |-> "c1", child_age |-> a, call_duration |-> d,
              parent_email |-> None]] : a \in {2, 12}, d \in {"5min", "10min"} }
  \cup
  { [func |-> "track_call_completed", arg |-> Completion("c1", sec, r)] :
       sec \in {-1, 240, 241}, r \in {None, Some(4), Some(5)} }

\* A background task of some earlier request runs while no request is
\* being handled.
RecordEvent(task) ==
  /\ reader.pc = "idle"
  /\ Len(analytics_store) < MaxLog
  /\ analytics_store' = RunTask(analytics_store, task, utcnow)
  /\ UNCHANGED <<TAVUS_API_KEY, TAVUS_PERSONA_ID, heap, utcnow, calls, reader, last_get, hist>>

InitAgg == Init /\ TAVUS_API_KEY = Some("set") /\ TAVUS_PERSONA_ID = Some("set")

NextAgg ==
  \/ \E task \in TaskInputs : RecordEvent(task)
  \/ Tick
  \/ AnalyticsBegin
  \/ AnalyticsFilterStarted
  \/ AnalyticsFilterCompleted
  \/ AnalyticsReturn
  \/ AnalyticsSend

SpecAgg == InitAgg /\ [][NextAgg]_vars

\* =================================================================== claims
\* What the formulas below are stated with.

RECURSIVE BagOfSeq(_)
\* The elements of a sequence, with multiplicity.
BagOfSeq(seq) ==
  IF seq = <<>> THEN EmptyBag ELSE SetToBag({Head(seq)}) (+) BagOfSeq(Tail(seq))

StartedLog == EventsOf(analytics_store, "call_started")
CompletedLog == EventsOf(analytics_store, "call_completed")

\* A CallStarted event or task argument, as the caller knows the call.
CallOf(x) ==
  [conversation_id |-> x.conversation_id, child_age |-> x.child_age,
   call_duration |-> x.call_duration]

\* A CallCompleted event or task argument: the request it records.
CompletionOf(x) ==
  Completion(x.conversation_id, x.actual_duration_seconds, x.parent_rating)

\* The tasks of function func that the request of slot s has added and
\* that have not run yet.
TasksOf(s, func) == SelectSeq(calls[s].tasks, LAMBDA t : t.func = func)

RECURSIVE PendingStarted(_)
\* The calls whose track_call_started task, added by a request of S, has
\* not run yet.
PendingStarted(S) ==
  IF S = {} THEN EmptyBag
  ELSE LET s == CHOOSE x \in S : TRUE
           mine == TasksOf(s, "track_call_started")
       IN  BagOfSeq([i \in 1..Len(mine) |-> CallOf(mine[i].arg)])
             (+) PendingStarted(S \ {s})

RECURSIVE PendingCompleted(_)
\* The same for track_call_completed.
PendingCompleted(S) ==
  IF S = {} THEN EmptyBag
  ELSE LET s == CHOOSE x \in S : TRUE
           mine == TasksOf(s, "track_call_completed")
       IN  BagOfSeq([i \in 1..Len(mine) |-> CompletionOf(mine[i].arg)])
             (+) PendingCompleted(S \ {s})

MapBag(seq, F(_)) == BagOfSeq([i \in 1..Len(seq) |-> F(seq[i])])

IsPrefix(a, b) == Len(a) <= Len(b) /\ SubSeq(b, 1, Len(a)) = a

StartCallAt(s) == calls[s].pc \in {"await_post", "responding"} /\ calls[s].endpoint = "start-call"

\* ---- C1
C1_Safe ==
  /\ MapBag(StartedLog, CallOf) (+) PendingStarted(Slots) = hist.started_ok
  /\ \A s \in Slots :
       (calls[s].pc = "responding" /\ calls[s].endpoint = "start-call"
          /\ calls[s].reply # None /\ calls[s].reply[1].kind = "status"
          /\ calls[s].reply[1].status_code = 200
          /\ "conversation_id" \in DOMAIN calls[s].reply[1].json[1])
       => /\ calls[s].response[1].kind = "start_call_response"
          /\ Len(calls[s].tasks) = 1
          /\ calls[s].tasks[1].func = "track_call_started"
          /\ calls[s].tasks[1].arg.conversation_id = calls[s].reply[1].json[1].conversation_id
          /\ calls[s].tasks[1].arg.child_age = calls[s].request[1].child_age
          /\ calls[s].tasks[1].arg.call_duration = calls[s].request[1].call_duration

\* C1: every start-call that succeeds causes exactly one CallStarted event
\* with that call's conversation id, age and duration: the calls answered
\* with success are, with multiplicity, the CallStarted events in the log
\* plus the track_call_started tasks still to run; the success response is
\* built with the task not yet run; and, the worker threads being fair, the
\* log holds the event of every success so far again and again (and, being
\* append-only, holds each from then on).
C1_CallStartedOnce ==
  /\ []C1_Safe
  /\ []<>(MapBag(StartedLog, CallOf) = hist.started_ok)

\* A success response is being sent and its event is not in the log yet.
C1_Witness ==
  \E s \in Slots :
    /\ calls[s].pc = "responding"
    /\ calls[s].response[1].kind = "start_call_response"
    /\ calls[s].tasks # <<>>
    /\ StartedLog = <<>>

\* ---- C2
\* C2: a start-call has posted to the provider only if its request has a
\* name of 1 to 50 characters, an age from 2 to 12 and a duration of 5min or
\* 10min, and both credentials are set and not empty; a start-call with
\* any other request, or without credentials, is answered with an error and
\* has posted nothing.
C2_ContactOnlyIfValid ==
  \A s \in Slots :
    StartCallAt(s) =>
      LET r == calls[s].request[1]
          valid == /\ Len(r.child_name) \in 1..50
                   /\ r.child_age \in 2..12
                   /\ r.call_duration \in {"5min", "10min"}
          configured == /\ TAVUS_API_KEY \notin {None, Some("")}
                        /\ TAVUS_PERSONA_ID \notin {None, Some("")}
      IN  /\ calls[s].posts > 0 => (valid /\ configured)
          /\ ~(valid /\ configured) =>
               /\ calls[s].pc = "responding"
               /\ calls[s].posts = 0
               /\ calls[s].response[1].kind \in {"request_validation_error", "error_envelope"}
               /\ (valid => calls[s].response[1].status_code = 500)

\* A request for a 7min call has been rejected without a post.
C2_Witness ==
  \E s \in Slots :
    /\ calls[s].pc = "responding"
    /\ calls[s].endpoint = "start-call"
    /\ calls[s].request[1].call_duration = "7min"
    /\ calls[s].posts = 0
    /\ calls[s].response[1].kind = "request_validation_error"

\* ---- C3
\* C3: a start-call that passes validation and the credential check posts
\* exactly once; whatever comes back ends it: a timeout with the error 504,
\* a connection failure with 503, a status other than 200 with that
\* status; and it never posts a second time.
C3_OnePostNoRetry ==
  \A s \in Slots :
    /\ calls[s].posts <= 1
    /\ (calls[s].pc = "await_post" => calls[s].posts = 1 /\ calls[s].reply = None)
    /\ (calls[s].pc = "responding" /\ calls[s].endpoint = "start-call"
          /\ StartCallRequest(calls[s].request[1]) /\ CredentialsConfigured)
       => /\ calls[s].posts = 1
          /\ calls[s].reply # None
          /\ LET reply == calls[s].reply[1]
                 response == calls[s].response[1]
             IN  /\ reply.kind = "timeout" =>
                      response.kind = "error_envelope" /\ response.status_code = 504
                 /\ reply.kind = "request_error" =>
                      response.kind = "error_envelope" /\ response.status_code = 503
                 /\ (reply.kind = "status" /\ reply.status_code # 200) =>
                      /\ response.kind = "error_envelope"
                      /\ response.status_code = reply.status_code

\* A start-call has ended with 504 after its one post timed out.
C3_Witness ==
  \E s \in Slots :
    /\ calls[s].pc = "responding"
    /\ calls[s].reply # None
    /\ calls[s].reply[1].kind = "timeout"
    /\ calls[s].response[1].status_code = 504
    /\ calls[s].posts = 1

\* ---- C4
\* C4: every complete-call with a well-formed body is acknowledged with
\* status success and adds exactly one track_call_completed task, which has
\* not run when the acknowledgement is built; the acknowledged requests
\* are, with multiplicity, the CallCompleted events in the log plus the
\* tasks still to run, whatever the log holds.
C4_CompletionRecordedOnce ==
  /\ MapBag(CompletedLog, CompletionOf) (+) PendingCompleted(Slots) = hist.completed_ok
  /\ \A s \in Slots :
       (calls[s].pc = "responding" /\ calls[s].endpoint = "complete-call")
       => LET r == calls[s].request[1]
              wellformed == r.parent_rating = None \/ r.parent_rating[1] \in 1..5
          IN  IF wellformed
                THEN /\ calls[s].response[1].kind = "complete_call_ack"
                     /\ calls[s].response[1].status = "success"
                     /\ calls[s].response[1].conversation_id = r.conversation_id
                     /\ Len(calls[s].tasks) = 1
                     /\ calls[s].tasks[1].func = "track_call_completed"
                     /\ CompletionOf(calls[s].tasks[1].arg) = r
                ELSE /\ calls[s].response[1].kind = "request_validation_error"
                     /\ calls[s].tasks = <<>>

\* A completion is acknowledged for a conversation that was never started
\* and is already completed in the log.
C4_Witness ==
  \E s \in Slots :
    /\ calls[s].pc = "responding"
    /\ calls[s].response[1].kind = "complete_call_ack"
    /\ \E i \in DOMAIN CompletedLog :
         CompletedLog[i].conversation_id = calls[s].request[1].conversation_id
    /\ \A i \in DOMAIN StartedLog :
         StartedLog[i].conversation_id # calls[s].request[1].conversation_id

\* ---- C5
\* C5: a summarize entered when every background task added so far has run
\* reports as total_calls the number of start-calls answered with success,
\* however the appends were interleaved.
C5_NoLostAppend ==
  (reader.pc = "returned" /\ reader.pending_at_begin = 0)
    => reader.result[1].total_calls = BagCardinality(hist.started_ok)

\* Two requests had their appends pending at the same time, and a
\* summarize entered after both had run reports two calls.
C5_Witness ==
  /\ reader.pc = "returned"
  /\ reader.pending_at_begin = 0
  /\ reader.result[1].total_calls = 2
  /\ hist.concurrent >= 2

\* ---- C7
\* C7: the log only grows at its end: every step of every operation leaves
\* the log it found as a prefix of the log it leaves.
C7_AppendOnly == [][IsPrefix(analytics_store, analytics_store')]_vars

\* A health check has answered while the log holds two events.
C7_Witness ==
  /\ Len(analytics_store) >= 2
  /\ last_get # None
  /\ last_get[1].kind = "health"
  /\ last_get[1].total_calls_tracked >= 1

\* ---- C10
\* C10: a start-call answered with an error of any kind has added no task,
\* and the CallStarted events in the log together with the
\* track_call_started tasks still to run never outnumber the start-calls
\* answered with success.
C10_NoTrackingOnError ==
  /\ Len(StartedLog) + BagCardinality(PendingStarted(Slots))
       <= BagCardinality(hist.started_ok)
  /\ \A s \in Slots :
       (calls[s].pc = "responding" /\ calls[s].endpoint = "start-call"
          /\ calls[s].response[1].kind # "start_call_response")
       => calls[s].tasks = <<>>

\* After one success, a start-call has failed with 503 and the log still
\* holds the one event.
C10_Witness ==
  \E s \in Slots :
    /\ calls[s].pc = "responding"
    /\ calls[s].endpoint = "start-call"
    /\ calls[s].response[1].kind = "error_envelope"
    /\ calls[s].response[1].status_code = 503
    /\ Len(StartedLog) = 1
    /\ BagCardinality(hist.started_ok) = 1

\* ---- the reference aggregation (C6, C8)
RECURSIVE SumOver(_, _)
\* The sum of f over the indices in I.
SumOver(I, f) ==
  IF I = {} THEN 0
  ELSE LET i == CHOOSE x \in I : TRUE IN f[i] + SumOver(I \ {i}, f)

Abs(x) == IF x < 0 THEN 0 - x ELSE x

\* The whole number of 1/scale units nearest to num/den, the even one of
\* two equally near.
Nearest(num, den, scale) ==
  LET base == (num * scale) \div den
      near == {base - 1, base, base + 1}
      dist(t) == Abs(num * scale - t * den)
  IN  CHOOSE t \in near :
        \A u \in near \ {t} : dist(t) < dist(u) \/ (dist(t) = dist(u) /\ t % 2 = 0)

StartedIn(log) == {i \in DOMAIN log : log[i].event = "call_started"}
CompletedIn(log) == {i \in DOMAIN log : log[i].event = "call_completed"}
RatedIn(log) == {i \in CompletedIn(log) : log[i].parent_rating # None}

\* The counts of the reference aggregation, which do not depend on how an
\* average is represented.
RefCounts(log, today) ==
  [total_calls |-> Cardinality(StartedIn(log)),
   calls_today |-> Cardinality({i \in StartedIn(log) : log[i].timestamp = today}),
   calls_by_duration |->
     [d \in {log[i].call_duration : i \in StartedIn(log)} |->
        Cardinality({i \in StartedIn(log) : log[i].call_duration = d})],
   calls_by_age |->
     [a \in {ToString(log[i].child_age) : i \in StartedIn(log)} |->
        Cardinality({i \in StartedIn(log) : ToString(log[i].child_age) = a})]]

SecondsSum(log) == SumOver(CompletedIn(log), [i \in DOMAIN log |->
                     IF i \in CompletedIn(log) THEN log[i].actual_duration_seconds ELSE 0])
RatingSum(log) == SumOver(RatedIn(log), [i \in DOMAIN log |->
                    IF i \in RatedIn(log) THEN log[i].parent_rating[1] ELSE 0])

\* The reference aggregation with the averages rounded: to tenths of a
\* second and to hundredths of a rating.
RefSummary(log, today) ==
  LET c == RefCounts(log, today)
  IN  [total_calls |-> c.total_calls, calls_today |-> c.calls_today,
       average_duration_seconds |->
         IF CompletedIn(log) = {} THEN 0
         ELSE Nearest(SecondsSum(log), Cardinality(CompletedIn(log)), 10),
       average_rating |->
         IF RatedIn(log) = {} THEN 0
         ELSE Nearest(RatingSum(log), Cardinality(RatedIn(log)), 100),
       calls_by_duration |-> c.calls_by_duration, calls_by_age |-> c.calls_by_age]

\* Does result agree with the reference counts of log?
CountsAgree(result, log, today) ==
  LET c == RefCounts(log, today)
  IN  /\ result.total_calls = c.total_calls
      /\ result.calls_today = c.calls_today
      /\ result.calls_by_duration = c.calls_by_duration
      /\ result.calls_by_age = c.calls_by_age
      /\ SumOver(DOMAIN result.calls_by_duration, result.calls_by_duration) = result.total_calls
      /\ SumOver(DOMAIN result.calls_by_age, result.calls_by_age) = result.total_calls

\* ---- C6
\* C6: the result of a summarize is the aggregation of one snapshot of the
\* log: of the events the log held at some moment, that is of a prefix of
\* the log as it is when the summarize returns or later.
C6_ConsistentSnapshot ==
  reader.pc = "returned" =>
    \E k \in 0..Len(analytics_store) :
      reader.result[1] = RefSummary(SubSeq(analytics_store, 1, k), reader.today)

\* ---- C8
\* C8 (as claimed): summarize equals the reference aggregation of the full
\* log, its average_duration_seconds being the mean of the durations of
\* all CallCompleted events and its average_rating the mean of the ratings
\* supplied, each 0 if there is none.
C8_SummarizeIsMean ==
  reader.pc = "returned" =>
    LET result == reader.result[1]
        log == analytics_store
    IN  /\ CountsAgree(result, log, reader.today)
        /\ result.average_duration_seconds * Cardinality(CompletedIn(log))
             = 10 * SecondsSum(log)
        /\ result.average_rating * Cardinality(RatedIn(log)) = 100 * RatingSum(log)

\* C8 (amended): summarize equals the reference aggregation of the full
\* log with average_duration_seconds the mean rounded to one decimal place
\* and average_rating the mean rounded to two decimal places; the values
\* of each map sum to total_calls; of an empty log every number is 0 and
\* both maps are empty.
C8_SummarizeIsRoundedMean ==
  reader.pc = "returned" =>
    /\ reader.result[1] = RefSummary(analytics_store, reader.today)
    /\ CountsAgree(reader.result[1], analytics_store, reader.today)
    /\ analytics_store = <<>> => reader.result[1] = EmptyAnalytics

\* Three completions of 240, 240 and 241 seconds rated 5, 5 and 4 are
\* summarized as 240.3 seconds and 4.67.
C8_Witness ==
  /\ reader.pc = "returned"
  /\ Len(CompletedLog) = 3
  /\ reader.result[1].average_duration_seconds = 2403
  /\ reader.result[1].average_rating = 467

\* ---- C9
\* C9: the catalog's arc of each duration is what it was at load time,
\* after any calls of load_conversation_arc for any age; the copy a
\* start-call holds has the age_adaptation and timing entries, and an arc
\* inspection returns the arc without them.
C9_CatalogNeverMutated ==
  /\ \A a \in CatalogAddrs : heap[a] = HeapAtLoad[a]
  /\ \A s \in Slots :
       calls[s].pc = "await_post" =>
         /\ calls[s].conversation_arc \notin CatalogAddrs
         /\ {"age_adaptation", "timing"} \subseteq DOMAIN heap[calls[s].conversation_arc]
  /\ (last_get # None /\ last_get[1].kind = "arc") =>
       /\ DOMAIN last_get[1].arc = {"name", "total_duration_seconds", "phases"}
       /\ last_get[1].arc = HeapAtLoad[CONVERSATION_ARCS.arcs[last_get[1].duration]]

\* An arc is inspected while a second start-call for that duration holds
\* its own copy, with the added entries.
C9_Witness ==
  /\ hist.requests >= 2
  /\ last_get # None
  /\ last_get[1].kind = "arc"
  /\ \E s \in Slots :
       /\ calls[s].pc = "await_post"
       /\ calls[s].request[1].call_duration = last_get[1].duration
       /\ "age_adaptation" \in DOMAIN heap[calls[s].conversation_arc]

====
